---- MODULE Spec2Model ----
(***************************************************************************)
(* Model of unique-uuid-derive/src/lib.rs: get_uuid_from_tag, the          *)
(* read-check-allocate-write protocol over the TOML store types.toml.      *)
(*                                                                         *)
(* The store file is a sequence of text units:                             *)
(*   "HT"        the line  [unique_tags]                                   *)
(*   "HY"        the line  [unique_type_tags]                              *)
(*   "q" c.. "=" a quoted key made of the characters c.., then  =          *)
(*   "u1".."un"  a quoted UUID string and its end of line                  *)
(*   "nl"        an empty line (ignored by the TOML parser)                *)
(*   "?"         a byte that is not TOML                                   *)
(***************************************************************************)
EXTENDS Integers, Sequences, FiniteSets, TLC

\* ------------------------------------------------------------------ bounds
MaxKeyLen == 1
MaxUuid == 4
MaxRequests == 3
MaxPad == 8
NumProcs == 2
MaxFaults == 1

\* --------------------------------------------------------------- alphabet
KeyChars == {"a"}

UuidName == <<"u1", "u2", "u3", "u4", "u5", "u6", "u7", "u8">>

\* the values uuid::Uuid can take in the model
UUIDs == {UuidName[i] : i \in 1..MaxUuid}

NoUuid == "none"

RECURSIVE KeysOfLen(_)
KeysOfLen(n) ==
    IF n = 0 THEN {<<>>}
    ELSE {Append(k, c) : k \in KeysOfLen(n - 1), c \in KeyChars}

\* the tags a caller can pass: strings of at most MaxKeyLen characters
Keys == UNION {KeysOfLen(n) : n \in 0..MaxKeyLen}

UType == {"UniqueTags", "UniqueTypeTags"}

Procs == 1..NumProcs

\* ------------------------------------------------------------ FileStructure
EmptyTable == [k \in {} |-> NoUuid]

\* #[derive(Default)] FileStructure: both tables empty
FileStructureDefault == [unique_tags |-> EmptyTable, unique_type_tags |-> EmptyTable]

\* HashMap::insert
Insert(table, k, u) ==
    [x \in (DOMAIN table) \cup {k} |-> IF x = k THEN u ELSE table[x]]

\* the two match arms exchanged
TargetSwapped(type) ==
    IF type = "UniqueTags" THEN "unique_type_tags" ELSE "unique_tags"

\* match r#type { UniqueTags => unique_tags, UniqueTypeTags => unique_type_tags }
Target(type) ==
    IF type = "UniqueTags" THEN "unique_tags" ELSE "unique_type_tags"

\* --------------------------------------------------------- toml::to_string
\* a key written without its quotes
EntryTextBare(k, u) == k \o <<"=", u>>

EntryText(k, u) == <<"q">> \o k \o <<"=", u>>

RECURSIVE Orders(_)
\* the orders in which a HashMap can iterate over its keys
Orders(S) ==
    IF S = {} THEN {<<>>}
    ELSE UNION {{<<k>> \o o : o \in Orders(S \ {k})} : k \in S}

RECURSIVE TableText(_, _)
TableText(table, order) ==
    IF order = <<>> THEN <<>>
    ELSE EntryText(Head(order), table[Head(order)]) \o TableText(table, Tail(order))

\* the texts toml::to_string(&file_structure) can produce: the two sections in
\* field order, the entries of each in HashMap iteration order
Encodings(fs) ==
    {<<"HT">> \o TableText(fs.unique_tags, o1) \o <<"HY">> \o TableText(fs.unique_type_tags, o2) :
        o1 \in Orders(DOMAIN fs.unique_tags), o2 \in Orders(DOMAIN fs.unique_type_tags)}

\* --------------------------------------------------------- toml::from_str
FormatError == [ok |-> FALSE, unique_tags |-> EmptyTable, unique_type_tags |-> EmptyTable]

RECURSIVE KeyEnd(_, _)
\* index of the first unit after the key characters starting at j
KeyEnd(t, j) ==
    IF j <= Len(t) /\ t[j] \in KeyChars THEN KeyEnd(t, j + 1) ELSE j

RECURSIVE ParseFrom(_, _, _, _, _)
\* sec: the table being filled ("R" root, "T" unique_tags, "Y" unique_type_tags);
\* seen: the section headers met so far; tabs: the tables read so far
ParseFrom(t, i, sec, seen, tabs) ==
    IF i > Len(t)
    THEN [ok |-> TRUE, unique_tags |-> tabs.T, unique_type_tags |-> tabs.Y]
    ELSE IF t[i] = "nl"
    THEN ParseFrom(t, i + 1, sec, seen, tabs)
    ELSE IF t[i] \in {"HT", "HY"}
    THEN LET s == IF t[i] = "HT" THEN "T" ELSE "Y"
         IN  IF s \in seen THEN FormatError
             ELSE ParseFrom(t, i + 1, s, seen \cup {s}, tabs)
    ELSE IF t[i] = "q"
    THEN LET j == KeyEnd(t, i + 1)
             key == SubSeq(t, i + 1, j - 1)
         IN  IF /\ j + 1 <= Len(t)
                /\ t[j] = "="
                /\ t[j + 1] \in UUIDs
                /\ key \notin DOMAIN tabs[sec]
             THEN ParseFrom(t, j + 2, sec, seen,
                            [tabs EXCEPT ![sec] = Insert(@, key, t[j + 1])])
             ELSE FormatError
    ELSE FormatError

\* a decoder whose schema requires both sections (no #[serde(default)])
DecodeStrict(t) ==
    IF {"HT", "HY"} \subseteq {t[i] : i \in 1..Len(t)}
    THEN ParseFrom(t, 1, "R", {}, [R |-> EmptyTable, T |-> EmptyTable, Y |-> EmptyTable])
    ELSE FormatError

\* toml::from_str::<FileStructure>(&contents): absent sections default to empty
\* tables, keys of the root table are unknown fields and are ignored
Decode(t) ==
    ParseFrom(t, 1, "R", {}, [R |-> EmptyTable, T |-> EmptyTable, Y |-> EmptyTable])

\* ----------------------------------------------------------------- file I/O
\* the rewrite without the seek to offset 0: the text lands after the old content
WriteAtEnd(old, pos, buf) == old \o buf

\* a rewrite that sets the file length to the end of the written text
WriteAtTruncate(old, pos, buf) == SubSeq(old, 1, pos) \o buf

\* write_all at offset pos of a file holding old: the bytes beyond the written
\* range stay (the file is never truncated)
WriteAt(old, pos, buf) ==
    SubSeq(old, 1, pos) \o buf \o SubSeq(old, pos + Len(buf) + 1, Len(old))

\* ------------------------------------------------------------------- state
VARIABLES
    exists,   \* whether types.toml exists
    bytes,    \* its content
    proc,     \* per build task: the locals of its call of get_uuid_from_tag
    used,     \* the UUIDs that exist already (in the store, or generated before)
    log,      \* the finished requests, in the order they finished
    origin    \* the store as it was before the first request

vars == <<exists, bytes, proc, used, log, origin>>

\* the locals of get_uuid_from_tag before a call; created (the open created the
\* file) and wrote (write_all completed) record what the call did
Idle ==
    [pc |-> "Idle", type |-> "UniqueTags", tag |-> <<>>, created |-> FALSE, pos |-> 0,
     contents |-> <<>>, file_structure |-> FileStructureDefault, uuid |-> NoUuid,
     toml |-> <<>>, wrote |-> FALSE, ret |-> NoUuid, err |-> "none"]

Finished == {"Idle", "HitReturn", "Return", "Failed", "Crashed"}

InFlight(p) == proc[p].pc \notin Finished

Started == Len(log) + Cardinality({p \in Procs : InFlight(p)})

Outcome(r) == [type |-> r.type, tag |-> r.tag, ret |-> r.ret, err |-> r.err, wrote |-> r.wrote]

\* the request of p ends in the record r
Finish(p, r) ==
    /\ proc' = [proc EXCEPT ![p] = r]
    /\ log' = Append(log, Outcome(r))

\* panic!/unwrap: the request of p ends without a value
Panic(p, kind) == Finish(p, [proc[p] EXCEPT !.pc = "Failed", !.err = kind])

\* ------------------------------------------------------------ initial stores
Pad(n) == [i \in 1..n |-> "nl"]

\* stores written by earlier builds
WrittenStores ==
    UNION {Encodings(fs) : fs \in
        {FileStructureDefault,
         [FileStructureDefault EXCEPT !.unique_tags = Insert(@, <<"a">>, "u1")],
         [FileStructureDefault EXCEPT !.unique_type_tags = Insert(@, <<>>, "u1")]}}

\* stores that leave out a section
PartialStores ==
    {<<"HT">> \o EntryText(<<>>, "u1"), <<"HY">>, <<"HY">> \o EntryText(<<"a">>, "u1")}

\* stores with empty lines before the tables
PaddedStores ==
    {Pad(n) \o t : n \in 1..MaxPad, t \in {<<"HT">> \o EntryText(<<>>, "u1"), <<"HT", "HY">>}}

\* stores that are not TOML of the schema
CorruptStores ==
    {<<"?">>, <<"HT", "HT">>, <<"HT", "q", "a", "=", "?">>,
     <<"HT">> \o EntryText(<<"a">>, "u1") \o EntryText(<<"a">>, "u1")}

InitialStores == {<<>>} \cup WrittenStores \cup PartialStores \cup PaddedStores \cup CorruptStores

UuidsIn(t) == {t[i] : i \in 1..Len(t)} \cap UUIDs

Init ==
    /\ exists \in BOOLEAN
    /\ bytes \in InitialStores
    /\ ~exists => bytes = <<>>
    /\ proc = [p \in Procs |-> Idle]
    /\ used = UuidsIn(bytes)
    /\ log = <<>>
    /\ origin = [exists |-> exists, bytes |-> bytes]

\* ---------------------------------------------------------- get_uuid_from_tag
\* a call that keeps the locals of the task's previous request
CallCached(p, type, tag) ==
    /\ ~InFlight(p)
    /\ proc' = [proc EXCEPT ![p].pc = "Unopened", ![p].type = type, ![p].tag = tag]
    /\ UNCHANGED <<exists, bytes, used, log, origin>>

\* a build task calls get_uuid_from_tag(tag, type)
Call(p, type, tag) ==
    /\ ~InFlight(p)
    /\ proc' = [proc EXCEPT ![p] = [Idle EXCEPT !.pc = "Unopened", !.type = type, !.tag = tag]]
    /\ UNCHANGED <<exists, bytes, used, log, origin>>

\* OpenOptions::new().read(true).write(true).create(true).open(file_path)
Open(p) ==
    /\ proc[p].pc = "Unopened"
    /\ exists' = TRUE
    /\ proc' = [proc EXCEPT ![p].pc = "Opened", ![p].created = ~exists, ![p].pos = 0]
    /\ UNCHANGED <<bytes, used, log, origin>>

\* file.read_to_string(&mut contents).unwrap()
Read(p) ==
    /\ proc[p].pc = "Opened"
    /\ proc' = [proc EXCEPT ![p].pc = "Read", ![p].contents = bytes, ![p].pos = Len(bytes)]
    /\ UNCHANGED <<exists, bytes, used, log, origin>>

\* toml::from_str(&contents).unwrap(), the text parses
DecodeOk(p) ==
    /\ proc[p].pc = "Read"
    /\ Decode(proc[p].contents).ok
    /\ proc' = [proc EXCEPT ![p].pc = "Decoded",
                            ![p].file_structure =
                                [unique_tags |-> Decode(proc[p].contents).unique_tags,
                                 unique_type_tags |-> Decode(proc[p].contents).unique_type_tags]]
    /\ UNCHANGED <<exists, bytes, used, log, origin>>

\* a decode failure replaced by the default registry (unwrap_or_default)
DecodeErrDefault(p) ==
    /\ proc[p].pc = "Read"
    /\ ~Decode(proc[p].contents).ok
    /\ proc' = [proc EXCEPT ![p].pc = "Decoded", ![p].file_structure = FileStructureDefault]
    /\ UNCHANGED <<exists, bytes, used, log, origin>>

\* a decode failure answered by opening and reading the store again
DecodeErrRetry(p) ==
    /\ proc[p].pc = "Read"
    /\ ~Decode(proc[p].contents).ok
    /\ proc' = [proc EXCEPT ![p].pc = "Unopened"]
    /\ UNCHANGED <<exists, bytes, used, log, origin>>

\* toml::from_str(&contents).unwrap(), the text does not parse: panic
DecodeErr(p) ==
    /\ proc[p].pc = "Read"
    /\ ~Decode(proc[p].contents).ok
    /\ Panic(p, "FormatError")
    /\ UNCHANGED <<exists, bytes, used, origin>>

\* the hit path that rewrites the store with the registry it decoded
HitRewrite(p) ==
    /\ proc[p].pc = "Decoded"
    /\ proc[p].tag \in DOMAIN proc[p].file_structure[Target(proc[p].type)]
    /\ \E t \in Encodings(proc[p].file_structure) : bytes' = WriteAt(bytes, 0, t)
    /\ Finish(p, [proc[p] EXCEPT !.pc = "HitReturn",
                                 !.ret = proc[p].file_structure[Target(proc[p].type)][proc[p].tag]])
    /\ UNCHANGED <<exists, used, origin>>

\* if let Some(uuid) = target.get(tag) { uuid.clone() }
Hit(p) ==
    /\ proc[p].pc = "Decoded"
    /\ proc[p].tag \in DOMAIN proc[p].file_structure[Target(proc[p].type)]
    /\ Finish(p, [proc[p] EXCEPT !.pc = "HitReturn",
                                 !.ret = proc[p].file_structure[Target(proc[p].type)][proc[p].tag]])
    /\ UNCHANGED <<exists, bytes, used, origin>>

\* uuid::Uuid::new_v4(): a value that no earlier call returned and no store holds.
\* Nothing in the program looks inside a UUID, so the fresh value is named by the
\* number of values that exist already; no value is left when MaxUuid exist.
NewV4 == {UuidName[i] : i \in {Cardinality(used) + 1} \cap (1..MaxUuid)} \ used

\* a miss that starts a new registry holding the new entry alone
MissForgets(p) ==
    /\ proc[p].pc = "Decoded"
    /\ proc[p].tag \notin DOMAIN proc[p].file_structure[Target(proc[p].type)]
    /\ \E u \in NewV4 :
        /\ used' = used \cup {u}
        /\ proc' = [proc EXCEPT ![p].pc = "MissAllocate", ![p].uuid = u,
                                ![p].file_structure =
                                    [FileStructureDefault EXCEPT ![Target(proc[p].type)] =
                                        Insert(@, proc[p].tag, u)]]
    /\ UNCHANGED <<exists, bytes, log, origin>>

\* a miss that inserts the new UUID under the key in both tables
MissInsertBoth(p) ==
    /\ proc[p].pc = "Decoded"
    /\ proc[p].tag \notin DOMAIN proc[p].file_structure[Target(proc[p].type)]
    /\ \E u \in NewV4 :
        /\ used' = used \cup {u}
        /\ proc' = [proc EXCEPT ![p].pc = "MissAllocate", ![p].uuid = u,
                                ![p].file_structure =
                                    [unique_tags |-> Insert(@.unique_tags, proc[p].tag, u),
                                     unique_type_tags |-> Insert(@.unique_type_tags, proc[p].tag, u)]]
    /\ UNCHANGED <<exists, bytes, log, origin>>

\* else { let uuid = new_v4(); target.insert(tag.to_string(), uuid); ...
Miss(p) ==
    /\ proc[p].pc = "Decoded"
    /\ proc[p].tag \notin DOMAIN proc[p].file_structure[Target(proc[p].type)]
    /\ \E u \in NewV4 :
        /\ used' = used \cup {u}
        /\ proc' = [proc EXCEPT ![p].pc = "MissAllocate", ![p].uuid = u,
                                ![p].file_structure[Target(proc[p].type)] =
                                    Insert(@, proc[p].tag, u)]
    /\ UNCHANGED <<exists, bytes, log, origin>>

\* let toml = toml::to_string(&file_structure).unwrap()
Encode(p) ==
    /\ proc[p].pc = "MissAllocate"
    /\ \E t \in Encodings(proc[p].file_structure) :
        proc' = [proc EXCEPT ![p].pc = "Encoded", ![p].toml = t]
    /\ UNCHANGED <<exists, bytes, used, log, origin>>

\* file.seek(SeekFrom::Start(0)).unwrap()
Seek(p) ==
    /\ proc[p].pc = "Encoded"
    /\ proc' = [proc EXCEPT ![p].pc = "Seeked", ![p].pos = 0]
    /\ UNCHANGED <<exists, bytes, used, log, origin>>

\* a write that first re-reads the store and adds its entry to what is there
WriteMerged(p) ==
    /\ proc[p].pc = "Seeked"
    /\ \E t \in Encodings([Decode(bytes) EXCEPT
                ![Target(proc[p].type)] = Insert(@, proc[p].tag, proc[p].uuid)]) :
        bytes' = WriteAt(bytes, proc[p].pos, t)
    /\ proc' = [proc EXCEPT ![p].pc = "Written", ![p].wrote = TRUE,
                            ![p].pos = proc[p].pos + Len(proc[p].toml)]
    /\ UNCHANGED <<exists, used, log, origin>>

\* file.write_all(toml.as_bytes()).unwrap()
Write(p) ==
    /\ proc[p].pc = "Seeked"
    /\ bytes' = WriteAt(bytes, proc[p].pos, proc[p].toml)
    /\ proc' = [proc EXCEPT ![p].pc = "Written", ![p].wrote = TRUE,
                            ![p].pos = proc[p].pos + Len(proc[p].toml)]
    /\ UNCHANGED <<exists, used, log, origin>>

\* uuid }
Return(p) ==
    /\ proc[p].pc = "Written"
    /\ Finish(p, [proc[p] EXCEPT !.pc = "Return", !.ret = proc[p].uuid])
    /\ UNCHANGED <<exists, bytes, used, origin>>

Step(p) ==
    \/ Open(p)
    \/ Read(p)
    \/ DecodeOk(p)
    \/ DecodeErr(p)
    \/ Hit(p)
    \/ Miss(p)
    \/ Encode(p)
    \/ Seek(p)
    \/ Write(p)
    \/ Return(p)

\* one build task, one request after the other
SeqCall ==
    /\ Started < MaxRequests
    /\ \E type \in UType, tag \in Keys : Call(1, type, tag)

Next ==
    \/ SeqCall
    \/ \E p \in Procs : Step(p)

Spec == Init /\ [][Next]_vars

\* the store is missing, empty or was written by earlier builds
InitWritten ==
    /\ Init
    /\ bytes \in {<<>>} \cup WrittenStores

\* ------------------------------------------------- concurrent build tasks
\* build tasks call get_uuid_from_tag with no coordination
ConcCall ==
    /\ Started < MaxRequests
    /\ \E p \in Procs, type \in UType, tag \in Keys : Call(p, type, tag)

NextConc ==
    \/ ConcCall
    \/ \E p \in Procs : Step(p)

SpecConc == InitWritten /\ [][NextConc]_vars

\* every statement of get_uuid_from_tag is a blocking call of a running thread:
\* a task that has a step to take is scheduled and takes it
SpecLive == InitWritten /\ [][NextConc]_vars /\ \A p \in Procs : WF_vars(Step(p))

\* ------------------------------------------------------ I/O errors, crashes
\* the requests that an I/O error or a kill ended
Faults == Cardinality({i \in 1..Len(log) : log[i].err \in {"IOError", "Crash"}})

\* open(file_path) returns Err: panic!("Error opening file")
OpenFail(p) ==
    /\ Faults < MaxFaults
    /\ proc[p].pc = "Unopened"
    /\ Panic(p, "IOError")
    /\ UNCHANGED <<exists, bytes, used, origin>>

\* read_to_string returns Err: unwrap panics
ReadFail(p) ==
    /\ Faults < MaxFaults
    /\ proc[p].pc = "Opened"
    /\ Panic(p, "IOError")
    /\ UNCHANGED <<exists, bytes, used, origin>>

\* seek returns Err: unwrap panics
SeekFail(p) ==
    /\ Faults < MaxFaults
    /\ proc[p].pc = "Encoded"
    /\ Panic(p, "IOError")
    /\ UNCHANGED <<exists, bytes, used, origin>>

\* write_all returns Err after it wrote the first n bytes: unwrap panics
WriteFail(p) ==
    /\ Faults < MaxFaults
    /\ proc[p].pc = "Seeked"
    /\ \E n \in 0..(Len(proc[p].toml) - 1) :
        bytes' = WriteAt(bytes, proc[p].pos, SubSeq(proc[p].toml, 1, n))
    /\ Panic(p, "IOError")
    /\ UNCHANGED <<exists, used, origin>>

\* the process is killed between two steps
Crash(p) ==
    /\ Faults < MaxFaults
    /\ proc[p].pc \in {"Opened", "Read", "Decoded", "MissAllocate", "Encoded", "Written"}
    /\ Finish(p, [proc[p] EXCEPT !.pc = "Crashed", !.err = "Crash"])
    /\ UNCHANGED <<exists, bytes, used, origin>>

\* the process is killed inside write_all, after it wrote the first n bytes
CrashInWrite(p) ==
    /\ Faults < MaxFaults
    /\ proc[p].pc = "Seeked"
    /\ \E n \in 0..(Len(proc[p].toml) - 1) :
        bytes' = WriteAt(bytes, proc[p].pos, SubSeq(proc[p].toml, 1, n))
    /\ Finish(p, [proc[p] EXCEPT !.pc = "Crashed", !.err = "Crash"])
    /\ UNCHANGED <<exists, used, origin>>

Fault(p) ==
    \/ OpenFail(p)
    \/ ReadFail(p)
    \/ SeekFail(p)
    \/ WriteFail(p)
    \/ Crash(p)
    \/ CrashInWrite(p)

NextFault ==
    \/ SeqCall
    \/ \E p \in Procs : Step(p)
    \/ \E p \in Procs : Fault(p)

SpecFault == InitWritten /\ [][NextFault]_vars

\* ------------------------------------------------------------------ claims
\* the registry the store holds (ok = FALSE when the store does not decode)
Store == Decode(bytes)

Quiet == \A p \in Procs : ~InFlight(p)

\* the table of namespace type in registry r
TableOf(r, type) == IF type = "UniqueTags" THEN r.unique_tags ELSE r.unique_type_tags

\* the store maps key k of namespace type to u
Holds(type, k, u) ==
    /\ Store.ok
    /\ k \in DOMAIN TableOf(Store, type)
    /\ TableOf(Store, type)[k] = u

OtherType(type) == IF type = "UniqueTags" THEN "UniqueTypeTags" ELSE "UniqueTags"

C4_FreshStoreBootstrap ==
    \A p \in Procs :
        (proc[p].created /\ proc[p].pc \in {"HitReturn", "Return", "Failed"})
        => /\ proc[p].pc = "Return"
           /\ proc[p].ret \in UUIDs
           /\ exists
           /\ Store.ok
           /\ DOMAIN TableOf(Store, proc[p].type) = {proc[p].tag}
           /\ TableOf(Store, proc[p].type)[proc[p].tag] = proc[p].ret
           /\ TableOf(Store, OtherType(proc[p].type)) = EmptyTable

C4_Witness ==
    \E p \in Procs :
        /\ proc[p].created
        /\ proc[p].pc = "Return"
        /\ proc[p].type = "UniqueTypeTags"
        /\ proc[p].tag = <<"a">>

\* C5: a request that read content that does not decode goes no further than the
\* failure: it ends with a format error, returns no UUID, generates none, writes
\* nothing, and the store content is what it read.
C5_CorruptStoreRejection ==
    \A p \in Procs :
        (proc[p].pc \notin {"Idle", "Unopened", "Opened"} /\ ~Decode(proc[p].contents).ok)
        => /\ proc[p].pc \in {"Read", "Failed"}
           /\ proc[p].pc = "Failed" => proc[p].err = "FormatError"
           /\ proc[p].ret = NoUuid
           /\ proc[p].uuid = NoUuid
           /\ ~proc[p].wrote
           /\ bytes = proc[p].contents

C5_Witness ==
    \E p \in Procs :
        /\ proc[p].pc = "Failed"
        /\ proc[p].err = "FormatError"
        /\ proc[p].contents # <<>>
        /\ bytes = proc[p].contents

\* C6: from an empty store, the requests (Tag, k1), (Tag, k1), (Tag, k2) with
\* k2 # k1 return U1, U1, U2 with U2 # U1, and the store then holds exactly the
\* tag entries k1 -> U1 and k2 -> U2 and no type entry.
C6_ThreeRequestScenario ==
    (/\ origin.bytes = <<>>
     /\ Len(log) = 3
     /\ Quiet
     /\ \A i \in 1..3 : log[i].type = "UniqueTags"
     /\ log[1].tag = log[2].tag
     /\ log[3].tag # log[1].tag)
    => /\ log[1].ret \in UUIDs
       /\ log[2].ret = log[1].ret
       /\ log[3].ret \in UUIDs \ {log[1].ret}
       /\ Store.ok
       /\ DOMAIN Store.unique_tags = {log[1].tag, log[3].tag}
       /\ Store.unique_tags[log[1].tag] = log[1].ret
       /\ Store.unique_tags[log[3].tag] = log[3].ret
       /\ Store.unique_type_tags = EmptyTable

C6_Witness ==
    /\ origin.bytes = <<>>
    /\ Len(log) = 3
    /\ Quiet
    /\ \A i \in 1..3 : log[i].type = "UniqueTags"
    /\ log[1].tag = <<"a">>
    /\ log[2].tag = <<"a">>
    /\ log[3].tag = <<>>
    /\ log[3].ret \in UUIDs

\* C7: when no request is in flight, the store decodes and holds every
\* (namespace, key) -> UUID pair that a request returned.
C7_ThreadSafe ==
    Quiet => /\ Store.ok
             /\ \A i \in 1..Len(log) :
                    log[i].ret # NoUuid => Holds(log[i].type, log[i].tag, log[i].ret)

\* C8: a request that ends on the hit path returns the UUID that the content it
\* read holds for its key, has generated no UUID, has not moved the file cursor
\* back nor written, and the store content is still the content it read.
C8_HitPathNoSideEffect ==
    \A p \in Procs :
        proc[p].pc = "HitReturn"
        => /\ Decode(proc[p].contents).ok
           /\ proc[p].tag \in DOMAIN TableOf(Decode(proc[p].contents), proc[p].type)
           /\ proc[p].ret = TableOf(Decode(proc[p].contents), proc[p].type)[proc[p].tag]
           /\ proc[p].uuid = NoUuid
           /\ proc[p].pos = Len(proc[p].contents)
           /\ ~proc[p].wrote
           /\ bytes = proc[p].contents

C8_Witness ==
    \E p \in Procs :
        /\ proc[p].pc = "HitReturn"
        /\ proc[p].ret \in UUIDs
        /\ bytes # <<>>
        /\ Len(log) >= 2

\* C9: the step at which a request fails with an I/O error ends the request
\* without a UUID and leaves the registry the store decodes to as it was.
C9_IoFailureNoPartialCommit ==
    [][\A p \in Procs :
        (proc[p].err # "IOError" /\ proc'[p].err = "IOError")
        => /\ proc'[p].pc = "Failed"
           /\ proc'[p].ret = NoUuid
           /\ Store' = Store]_vars

\* C10: when a request is interrupted on a store that decoded, the store still
\* decodes, to the registry as it was before the request or to that registry with
\* the request's entry added.
C10_CrashConsistency ==
    [][\A p \in Procs :
        (proc[p].pc # "Crashed" /\ proc'[p].pc = "Crashed" /\ Store.ok)
        => /\ Store'.ok
           /\ \/ Store' = Store
              \/ /\ TableOf(Store', proc[p].type) =
                        Insert(TableOf(Store, proc[p].type), proc[p].tag, proc[p].uuid)
                 /\ TableOf(Store', OtherType(proc[p].type)) =
                        TableOf(Store, OtherType(proc[p].type))]_vars


\* ------------------------------------------------- encode then decode alone
\* the UUIDs of the registries handed to toml::to_string
RegUuids == {UuidName[1], UuidName[2]}

\* HashMap<String, uuid::Uuid>
Tables == UNION {[D -> RegUuids] : D \in SUBSET Keys}

\* FileStructure
Registries == [unique_tags : Tables, unique_type_tags : Tables]

\* a call that holds an arbitrary registry, about to encode it into an empty file
InitReload ==
    /\ exists = TRUE
    /\ bytes = <<>>
    /\ \E fs \in Registries :
        proc = [p \in Procs |->
                    IF p = 1 THEN [Idle EXCEPT !.pc = "MissAllocate", !.file_structure = fs]
                    ELSE Idle]
    /\ used = RegUuids
    /\ log = <<>>
    /\ origin = [exists |-> exists, bytes |-> bytes]

NextReload ==
    \/ \E p \in Procs : Encode(p)
    \/ \E p \in Procs : Seek(p)
    \/ \E p \in Procs : Write(p)

SpecReload == InitReload /\ [][NextReload]_vars

\* what decoding gives when it reproduces registry fs
Reloaded(fs) ==
    [ok |-> TRUE, unique_tags |-> fs.unique_tags, unique_type_tags |-> fs.unique_type_tags]

\* C11: for every registry, every text toml::to_string can give for it decodes
\* to the same key -> UUID pairs in each namespace, as text and once written to
\* the store and read back.
C11_StabilityAcrossReload ==
    \A p \in Procs :
        /\ proc[p].pc \in {"Encoded", "Seeked", "Written"}
            => Decode(proc[p].toml) = Reloaded(proc[p].file_structure)
        /\ proc[p].pc = "Written" => Store = Reloaded(proc[p].file_structure)

C11_Witness ==
    \E p \in Procs :
        /\ proc[p].pc = "Written"
        /\ DOMAIN proc[p].file_structure.unique_tags = Keys
        /\ DOMAIN proc[p].file_structure.unique_type_tags = Keys
        /\ proc[p].file_structure.unique_tags[<<>>] # proc[p].file_structure.unique_type_tags[<<>>]


\* C12: two requests for different keys that read the same content both take the
\* miss path; when the second of them writes over exactly what the first wrote,
\* the store begins with the second writer's text and no longer holds the entry
\* the first writer added.
C12_LostUpdate ==
    [][\A p, q \in Procs :
        (/\ p # q
         /\ proc[p].pc = "Seeked"
         /\ proc'[p].pc = "Written"
         /\ proc[q].pc \in {"Written", "Return"}
         /\ proc[q].contents = proc[p].contents
         /\ bytes = proc[q].toml
         /\ <<proc[p].type, proc[p].tag>> # <<proc[q].type, proc[q].tag>>)
        => /\ SubSeq(bytes', 1, Len(proc[p].toml)) = proc[p].toml
           /\ Holds(proc[q].type, proc[q].tag, proc[q].uuid)
           /\ ~(/\ Store'.ok
                /\ proc[q].tag \in DOMAIN TableOf(Store', proc[q].type)
                /\ TableOf(Store', proc[q].type)[proc[q].tag] = proc[q].uuid)]_vars

\* both requests returned a UUID and the store lacks the first writer's entry
C12_Witness ==
    /\ Quiet
    /\ Len(log) = 2
    /\ \A i \in 1..2 : log[i].wrote /\ log[i].ret \in UUIDs
    /\ <<log[1].type, log[1].tag>> # <<log[2].type, log[2].tag>>
    /\ proc[1].contents = proc[2].contents
    /\ Store.ok
    /\ \E i \in 1..2 : ~Holds(log[i].type, log[i].tag, log[i].ret)


\* C13: all requests for one (namespace, key) that return, sequential or
\* interleaved, starting from a store that lacks the key, return the same UUID,
\* and once no request is in flight the store holds that UUID for the key.
C13_OneUuidPerKey ==
    \A i, j \in 1..Len(log) :
        (/\ log[i].type = log[j].type
         /\ log[i].tag = log[j].tag
         /\ log[i].ret # NoUuid
         /\ log[j].ret # NoUuid
         /\ log[i].tag \notin DOMAIN TableOf(Decode(origin.bytes), log[i].type))
        => /\ log[i].ret = log[j].ret
           /\ Quiet => Holds(log[i].type, log[i].tag, log[i].ret)


\* C14: after the miss path's write the store is the encoded registry followed
\* by the units of the old content beyond the new text's length; it equals the
\* encoded registry exactly when the new text is at least as long as the old
\* content, and when it is shorter the old trailing units remain.
C14_RewriteWithoutTruncation ==
    \A p \in Procs :
        proc[p].pc = "Written"
        => /\ proc[p].toml \in Encodings(proc[p].file_structure)
           /\ bytes = proc[p].toml \o
                        SubSeq(proc[p].contents, Len(proc[p].toml) + 1, Len(proc[p].contents))
           /\ (bytes = proc[p].toml) <=> (Len(proc[p].toml) >= Len(proc[p].contents))
           /\ Len(proc[p].toml) < Len(proc[p].contents)
                => /\ Len(bytes) = Len(proc[p].contents)
                   /\ bytes[Len(bytes)] = proc[p].contents[Len(proc[p].contents)]

C14_Witness ==
    \E p \in Procs :
        /\ proc[p].pc = "Written"
        /\ Len(proc[p].toml) < Len(proc[p].contents)
        /\ bytes # proc[p].toml


\* the order of the steps of one request; a request leaves it only by the fatal
\* abort of a failed decode
StepOrder ==
    {<<"Unopened", "Opened">>, <<"Opened", "Read">>, <<"Read", "Decoded">>,
     <<"Read", "Failed">>, <<"Decoded", "HitReturn">>, <<"Decoded", "MissAllocate">>,
     <<"MissAllocate", "Encoded">>, <<"Encoded", "Seeked">>, <<"Seeked", "Written">>,
     <<"Written", "Return">>}
        \cup {<<f, "Unopened">> : f \in Finished}

\* C15: every step of a request follows the order Unopened, Opened, (read),
\* Decoded, then HitReturn or MissAllocate, Encoded, (seek), Written, Return; the
\* store changes only in the write step, which comes after a successful decode
\* that did not find the key and happens at most once per request; a UUID is
\* returned on a miss only after the write; a request starts at Unopened with
\* every local reset.
C15_StepOrdering ==
    [][ /\ bytes' # bytes
            => \E p \in Procs : proc[p].pc = "Seeked" /\ proc'[p].pc = "Written"
        /\ \A p \in Procs :
            LET a == proc[p]
                b == proc'[p]
            IN  /\ a.pc = b.pc => a = b
                /\ a.pc # b.pc => <<a.pc, b.pc>> \in StepOrder
                /\ b.pc = "Unopened" /\ a.pc # "Unopened"
                    => b = [Idle EXCEPT !.pc = "Unopened", !.type = b.type, !.tag = b.tag]
                /\ a.pc = "Seeked" => ~a.wrote
                /\ b.wrote /\ ~a.wrote
                    => /\ a.pc = "Seeked" /\ b.pc = "Written"
                       /\ Decode(a.contents).ok
                       /\ a.tag \notin DOMAIN TableOf(Decode(a.contents), a.type)
                /\ b.ret # a.ret /\ b.ret # NoUuid
                    => \/ a.pc = "Written" /\ b.pc = "Return" /\ a.wrote /\ b.ret = a.uuid
                       \/ a.pc = "Decoded" /\ b.pc = "HitReturn" /\ ~b.wrote
      ]_vars

C15_Witness ==
    /\ Len(log) >= 2
    /\ log[1].wrote /\ log[1].ret \in UUIDs
    /\ ~log[2].wrote /\ log[2].ret = log[1].ret
    /\ proc[1].pc = "HitReturn"


\* C16: every request that has started eventually ends, with a returned UUID or
\* with a fatal abort, whatever the other task does meanwhile.
C16_Termination ==
    \A p \in Procs :
        InFlight(p) ~> (proc[p].pc \in {"HitReturn", "Return", "Failed"})

C16_Witness ==
    /\ Quiet
    /\ Len(log) = MaxRequests
    /\ \E i \in 1..Len(log) : log[i].err = "FormatError"
    /\ \E i, j \in 1..Len(log) : i # j /\ log[i].ret \in UUIDs /\ log[j].ret \in UUIDs


\* the section header of namespace type
HeaderOf(type) == IF type = "UniqueTags" THEN "HT" ELSE "HY"

\* the text t has no section of namespace type
Omits(t, type) == \A i \in 1..Len(t) : t[i] # HeaderOf(type)

\* C17: a request that read a missing or empty store, or a well-formed store that
\* leaves out a section, decodes it to a registry whose left-out tables are empty
\* and does not fail: for a key of a left-out table it takes the miss path, and
\* it ends with a returned UUID.
C17_OmissionIsNotCorruption ==
    \A p \in Procs :
        LET r == proc[p]
        IN  /\ r.pc \notin {"Idle", "Unopened", "Opened"}
            /\ r.contents \in {<<>>} \cup PartialStores
            => /\ Decode(r.contents).ok
               /\ \A type \in UType :
                    Omits(r.contents, type) => TableOf(Decode(r.contents), type) = EmptyTable
               /\ r.pc # "Failed" /\ r.err = "none"
               /\ r.pc \notin {"Read"}
                    => /\ TableOf(r.file_structure, OtherType(r.type))
                            = TableOf(Decode(r.contents), OtherType(r.type))
                       /\ r.created => r.contents = <<>>
               /\ Omits(r.contents, r.type) => r.pc # "HitReturn"
               /\ r.pc = "Return" => r.wrote /\ r.ret \in UUIDs
               /\ r.pc = "HitReturn" => r.ret = TableOf(Decode(r.contents), r.type)[r.tag]

C17_Witness ==
    \E p \in Procs :
        /\ proc[p].pc = "Return"
        /\ proc[p].contents \in PartialStores
        /\ Omits(proc[p].contents, proc[p].type)
        /\ proc[p].ret \in UUIDs
        /\ Len(log) = 1


\* the (namespace, key) pairs that registry r maps
Pairs(r) == {x \in UType \X Keys : x[2] \in DOMAIN TableOf(r, x[1])}

\* C18: with a generator that returns fresh values, in every state that
\* sequential requests reach from an empty store, two different (namespace, key)
\* pairs of the store never map to the same UUID.
C18_InjectiveAssignment ==
    origin.bytes = <<>> /\ Store.ok
    => \A x, y \in Pairs(Store) :
            x # y => TableOf(Store, x[1])[x[2]] # TableOf(Store, y[1])[y[2]]

C18_Witness ==
    /\ origin.bytes = <<>>
    /\ Quiet
    /\ Store.ok
    /\ Cardinality(Pairs(Store)) = 3
    /\ \E k \in Keys : \A type \in UType : <<type, k>> \in Pairs(Store)


\* C19: when sequential requests start from a missing or empty store, the text
\* of every rewrite is at least as long as the content it overwrites, the store
\* is at every moment empty or exactly an encoding of the registry it decodes
\* to, after a write it is the text written, and no request fails to decode it.
C19_StoreStaysDecodable ==
    origin.bytes = <<>>
    => /\ Store.ok
       /\ bytes = <<>>
            \/ bytes \in Encodings([unique_tags |-> Store.unique_tags,
                                    unique_type_tags |-> Store.unique_type_tags])
       /\ \A i \in 1..Len(log) : log[i].err = "none" /\ log[i].ret \in UUIDs
       /\ \A p \in Procs :
            /\ proc[p].pc \in {"Encoded", "Seeked"}
                => /\ Len(proc[p].toml) >= Len(bytes)
                   /\ Len(proc[p].toml) >= Len(proc[p].contents)
            /\ proc[p].pc \in {"Written", "Return"} => bytes = proc[p].toml
            /\ proc[p].pc # "Failed"

C19_Witness ==
    /\ origin.bytes = <<>>
    /\ Len(log) = 2
    /\ \A i \in 1..2 : log[i].wrote
    /\ proc[1].pc = "Read"
    /\ proc[1].contents = bytes
    /\ Decode(proc[1].contents).ok
    /\ Cardinality(Pairs(Store)) = 2

====
